---------------------------- MODULE Spec2Model ----------------------------
(***************************************************************************)
(* A model of the uv-monorepo API scaffold:                                *)
(*   - packages/shared/src/shared/config.py      (Settings)                *)
(*   - packages/shared/src/shared/db/connect.py  (init_db / close_db)      *)
(*   - packages/shared/src/shared/db/models/users.py (User)                *)
(*   - packages/shared/migrations/models/0_20260226225928_init.py          *)
(*   - services/api/app/graphql/schema.py        (Query.ping)              *)
(*   - services/api/app/main.py                  (lifespan, app, health)   *)
(*                                                                         *)
(* Two specifications share the variables:                                 *)
(*   Spec    the API process: module import, lifespan, request handling;   *)
(*   DbSpec  the database: the migration and the rows of table "users".    *)
(*                                                                         *)
(* A nullable value is a set with at most one element: {} is NULL / unset. *)
(***************************************************************************)
EXTENDS Integers, Sequences, FiniteSets, TLC

VARIABLES
    \* ---- the API process
    env,          \* process environment: DATABASE_URL, {} when unset
    envFile,      \* the .env file: DATABASE_URL, {} when unset or no file
    pc,           \* "boot" | "import_failed" | "ready" | "exited"
    settings,     \* {} before/without construction, else {Settings record}
    genState,     \* lifespan generator: "idle" | "running" | "awaiting" |
                  \*   "suspended" | "returned" | "raised"
    genPc,        \* index of the lifespan statement being executed
    initCalls,    \* number of calls of init_db()
    closeCalls,   \* number of calls of close_db()
    initResult,   \* "none" | "ok" | "error": how init_db() ended
    pool,         \* Tortoise connections: [state, url]
    dbReachable,  \* whether the database server answers
    accepting,    \* whether the ASGI server dispatches new requests
    nextReq,      \* id of the next request
    inflight,     \* set of requests being handled
    healthLog,    \* responses of GET /health, with the state they were made in
    gqlLog,       \* responses of POST /graphql, with the state they were made in
    \* ---- the database
    schema,       \* catalog: table name -> set of column definitions
    rows,         \* table "users": sequence of rows, in insertion order
    clock,        \* the time timestamps are taken from
    applied,      \* runs of the forward migration: "never" | "once" | "again"
    lastError     \* the error of the last database operation, or "none"

appVars == <<env, envFile, pc, settings, genState, genPc, initCalls, closeCalls,
             initResult, pool, dbReachable, accepting, nextReq,
             inflight, healthLog, gqlLog>>
dbVars == <<schema, rows, clock, applied, lastError>>
vars == <<env, envFile, pc, settings, genState, genPc, initCalls, closeCalls,
          initResult, pool, dbReachable, accepting, nextReq,
          inflight, healthLog, gqlLog, schema, rows, clock, applied, lastError>>

(***************************************************************************)
(* Bounds of the model.                                                    *)
(***************************************************************************)
MaxRequests == 2
MaxUsers == 2
MaxClock == 1

\* Email addresses: as many as rows, so that a table can be filled with
\* distinct addresses and any address can be tried twice.
Emails == 1..MaxUsers

(***************************************************************************)
(* The migration: 0_20260226225928_init.py.                                *)
(* A column is [name, type, notnull, unique, pk]; a statement is           *)
(* [table, ifNotExists, columns].                                          *)
(***************************************************************************)
Col(n, t, nn, u, p) == [name |-> n, type |-> t, notnull |-> nn, unique |-> u, pk |-> p]

BaseColumnsDDL ==
    { Col("id", "UUID", TRUE, FALSE, TRUE),
      Col("created_at", "TIMESTAMPTZ", TRUE, FALSE, FALSE),
      Col("updated_at", "TIMESTAMPTZ", TRUE, FALSE, FALSE),
      Col("is_deleted", "BOOL", TRUE, FALSE, FALSE) }

UsersColumnsDDL_NoUnique ==
    BaseColumnsDDL \cup
    { Col("email", "VARCHAR(255)", TRUE, FALSE, FALSE),
      Col("phone", "VARCHAR(20)", FALSE, FALSE, FALSE),
      Col("password_hash", "VARCHAR(255)", FALSE, FALSE, FALSE),
      Col("is_active", "BOOL", TRUE, FALSE, FALSE),
      Col("is_verified", "BOOL", TRUE, FALSE, FALSE) }

UsersColumnsDDL ==
    BaseColumnsDDL \cup
    { Col("email", "VARCHAR(255)", TRUE, TRUE, FALSE),
      Col("phone", "VARCHAR(20)", FALSE, FALSE, FALSE),
      Col("password_hash", "VARCHAR(255)", FALSE, FALSE, FALSE),
      Col("is_active", "BOOL", TRUE, FALSE, FALSE),
      Col("is_verified", "BOOL", TRUE, FALSE, FALSE) }

AerichColumnsDDL ==
    { Col("id", "SERIAL", TRUE, FALSE, TRUE),
      Col("version", "VARCHAR(255)", TRUE, FALSE, FALSE),
      Col("app", "VARCHAR(100)", TRUE, FALSE, FALSE),
      Col("content", "JSONB", TRUE, FALSE, FALSE) }

CreateTable(t, ine, cols) == [table |-> t, ifNotExists |-> ine, columns |-> cols]

upgrade_NoIfNotExists ==
    << CreateTable("basemodel", FALSE, BaseColumnsDDL),
       CreateTable("users", FALSE, UsersColumnsDDL),
       CreateTable("aerich", FALSE, AerichColumnsDDL) >>

\* upgrade(db): the forward SQL, three CREATE TABLE IF NOT EXISTS statements
upgrade ==
    << CreateTable("basemodel", TRUE, BaseColumnsDDL),
       CreateTable("users", TRUE, UsersColumnsDDL),
       CreateTable("aerich", TRUE, AerichColumnsDDL) >>

\* downgrade(db): the backward SQL, a text of white space only: no statement
downgrade == << >>

EmptyCatalog == [t \in {} |-> {}]

\* One statement run by the database: CREATE TABLE fails on an existing table
\* unless IF NOT EXISTS is given, and then leaves the existing table alone.
\* The result is [catalog, error].
ExecStatement(st, cat) ==
    IF st.table \in DOMAIN cat
    THEN [catalog |-> cat,
          error |-> IF st.ifNotExists THEN "none" ELSE "duplicate_table"]
    ELSE [catalog |-> [t \in DOMAIN cat \cup {st.table} |->
                          IF t = st.table THEN st.columns ELSE cat[t]],
          error |-> "none"]

\* The migration runner executes the SQL text in one transaction: the first
\* failing statement aborts it and rolls the catalog back.
RECURSIVE ExecScript(_, _, _)
ExecScript(stmts, cat, orig) ==
    IF stmts = << >>
    THEN [catalog |-> cat, error |-> "none"]
    ELSE LET r == ExecStatement(Head(stmts), cat)
         IN  IF r.error # "none"
             THEN [catalog |-> orig, error |-> r.error]
             ELSE ExecScript(Tail(stmts), r.catalog, orig)

MigratedCatalog == ExecScript(upgrade, EmptyCatalog, EmptyCatalog).catalog


(***************************************************************************)
(* The data model: shared/db/models/users.py on top of BaseModel.          *)
(* A field is [name, null, unique, default]; default {} is "no default".   *)
(***************************************************************************)
Field(n, nl, u, d) == [name |-> n, null |-> nl, unique |-> u, default |-> d]

UserFields_InactiveDefault ==
    { Field("email", FALSE, TRUE, {}),
      Field("phone", TRUE, FALSE, {}),
      Field("password_hash", TRUE, FALSE, {}),
      Field("is_active", FALSE, FALSE, {FALSE}),
      Field("is_verified", FALSE, FALSE, {FALSE}) }

\* class User(BaseModel): the five declared fields
UserFields ==
    { Field("email", FALSE, TRUE, {}),
      Field("phone", TRUE, FALSE, {}),
      Field("password_hash", TRUE, FALSE, {}),
      Field("is_active", FALSE, FALSE, {TRUE}),
      Field("is_verified", FALSE, FALSE, {FALSE}) }

\* class Meta: table = "users"
User_Meta_table == "users"

UserField(n) == CHOOSE f \in UserFields : f.name = n

\* The value a field takes at construction: the keyword argument when given,
\* else the field's default, else NULL.
FieldValue(n, kwargs) ==
    IF kwargs[n] # {} THEN kwargs[n] ELSE UserField(n).default

\* BaseModel (shared/db/models/base.py): id is a UUID primary key generated
\* at creation, created_at is set at creation, updated_at at every save,
\* is_deleted defaults to false.
BaseModel_OnCreate(uuid, now) ==
    [id |-> {uuid}, created_at |-> {now}, updated_at |-> {now}, is_deleted |-> {FALSE}]

BaseModel_OnSave_TouchesCreated(row, now) ==
    [row EXCEPT !.created_at = {now}, !.updated_at = {now}]

BaseModel_OnSave(row, now) == [row EXCEPT !.updated_at = {now}]

\* User(**kwargs): the row the ORM sends to the database
User_new(kwargs, uuid, now) ==
    LET b == BaseModel_OnCreate(uuid, now)
    IN  [id |-> b.id, created_at |-> b.created_at, updated_at |-> b.updated_at,
         is_deleted |-> b.is_deleted,
         email |-> FieldValue("email", kwargs),
         phone |-> FieldValue("phone", kwargs),
         password_hash |-> FieldValue("password_hash", kwargs),
         is_active |-> FieldValue("is_active", kwargs),
         is_verified |-> FieldValue("is_verified", kwargs)]

\* The ORM refuses NULL in a field declared without null=True.
OrmValid(row) == \A f \in UserFields : f.null \/ row[f.name] # {}

Kw(e, p, h, a, v) ==
    [email |-> e, phone |-> p, password_hash |-> h, is_active |-> a, is_verified |-> v]

NoKwargs == Kw({}, {}, {}, {}, {})

\* The keyword arguments creations are tried with.
CreateArgs ==
    { Kw({e}, {}, {}, {}, {}) : e \in Emails } \cup
    { Kw({e}, {"p"}, {"h"}, {FALSE}, {TRUE}) : e \in Emails } \cup
    { NoKwargs }

(***************************************************************************)
(* The database, checking the constraints the catalog holds.               *)
(***************************************************************************)
\* The outcome of storing `row` in table `t` beside the rows `others`.
CheckRow(t, row, others, cat) ==
    IF t \notin DOMAIN cat THEN "undefined_table"
    ELSE IF \E c \in cat[t] : c.notnull /\ row[c.name] = {}
    THEN "not_null_violation"
    ELSE IF \E c \in cat[t] : (c.unique \/ c.pk) /\ row[c.name] # {}
                               /\ \E o \in others : o[c.name] = row[c.name]
    THEN "unique_violation"
    ELSE "ok"

RowSet(rs) == { rs[i] : i \in DOMAIN rs }
OtherRows(rs, i) == { rs[j] : j \in DOMAIN rs \ {i} }

Failure(res) == IF res = "ok" THEN "none" ELSE res

\* The migration runner applies the forward migration.
RunUpgrade ==
    /\ LET r == ExecScript(upgrade, schema, schema)
       IN  /\ schema' = r.catalog
           /\ lastError' = r.error
    /\ applied' = IF applied = "never" THEN "once" ELSE "again"
    /\ UNCHANGED <<rows, clock>>
    /\ UNCHANGED appVars

\* The migration runner applies the backward migration.
RunDowngrade ==
    /\ LET r == ExecScript(downgrade, schema, schema)
       IN  /\ schema' = r.catalog
           /\ lastError' = r.error
    /\ UNCHANGED <<rows, clock, applied>>
    /\ UNCHANGED appVars

\* uuid.uuid4(): a UUID no stored row holds
uuid4 == Len(rows) + 1

\* await User.create(**kwargs)
CreateUser(kwargs) ==
    /\ Len(rows) < MaxUsers
    /\ LET row == User_new(kwargs, uuid4, clock)
           res == IF ~OrmValid(row) THEN "value_error"
                  ELSE CheckRow(User_Meta_table, row, RowSet(rows), schema)
       IN  /\ rows' = IF res = "ok" THEN Append(rows, row) ELSE rows
           /\ lastError' = Failure(res)
    /\ UNCHANGED <<schema, clock, applied>>
    /\ UNCHANGED appVars

\* The row i written back by user.save() with the fields of `changed`.
SaveRow(i, changed) ==
    LET row == BaseModel_OnSave(changed, clock)
        res == IF ~OrmValid(row) THEN "value_error"
               ELSE CheckRow(User_Meta_table, row, OtherRows(rows, i), schema)
    IN  /\ rows' = IF res = "ok" THEN [rows EXCEPT ![i] = row] ELSE rows
        /\ lastError' = Failure(res)
        /\ UNCHANGED <<schema, clock, applied>>
        /\ UNCHANGED appVars

\* user.email = e; await user.save()
UpdateEmail(i, e) == SaveRow(i, [rows[i] EXCEPT !.email = e])

\* Time passes.
Tick ==
    /\ clock < MaxClock
    /\ clock' = clock + 1
    /\ UNCHANGED <<schema, rows, applied, lastError>>
    /\ UNCHANGED appVars


(***************************************************************************)
(* Settings: shared/config.py.                                             *)
(***************************************************************************)
SettingsOf(url) ==
    [database_url |-> url, redis_url |-> "redis://localhost:6379/0",
     environment |-> "development", debug |-> FALSE]

Settings_DefaultUrl ==
    LET src == IF env # {} THEN env ELSE envFile
    IN  IF src = {} THEN { SettingsOf("") } ELSE { SettingsOf(u) : u \in src }

\* Settings(): database_url has no default; it is read from the process
\* environment first, then from the env file.  {} is a ValidationError.
Settings ==
    LET src == IF env # {} THEN env ELSE envFile
    IN  { SettingsOf(u) : u \in src }

(***************************************************************************)
(* Database lifecycle: shared/db/connect.py.                               *)
(***************************************************************************)
TORTOISE_CONFIG(s) ==
    [connections |-> [default |-> s.database_url],
     apps |-> [models |-> [models |-> <<"shared.db.models.users", "aerich.models">>,
                           default_connection |-> "default"]]]

NoPool == [state |-> "none", url |-> ""]

\* Tortoise.init(config=TORTOISE_CONFIG)
init_db(s) == [state |-> "open", url |-> TORTOISE_CONFIG(s).connections.default]

\* Tortoise.close_connections()
close_db(p) == [p EXCEPT !.state = "closed"]

(***************************************************************************)
(* GraphQL schema: app/graphql/schema.py.                                  *)
(***************************************************************************)
ping_Wrong == "ping"

\* async def ping(self) -> str
ping == "pong"

\* class Query: its fields, each [name, args, type]
QueryFields == { [name |-> "ping", args |-> << >>, type |-> "String"] }

\* strawberry.Schema(query=Query) executing the query { field }
schema_execute(field) ==
    IF \E f \in QueryFields : f.name = field
    THEN [data |-> { <<field, ping>> }, errors |-> {}]
    ELSE [data |-> {}, errors |-> { "Cannot query field" }]

(***************************************************************************)
(* HTTP application: app/main.py.                                          *)
(***************************************************************************)
lifespan_YieldFirst == << "yield", "init_db", "close_db" >>

\* The body of lifespan(app): await init_db(); yield; await close_db()
lifespan == << "init_db", "yield", "close_db" >>

health_ReadsDb == [status |-> IF dbReachable /\ pool.state = "open" THEN "ok" ELSE "down"]

\* async def health()
health == [status |-> "ok"]

\* The paths the application routes, and the fields queries ask for.
Paths == { "/health", "/graphql" }
AskedFields == { "ping", "pong" }

\* The state a response is made in.
Now == [gen |-> genState, init |-> initResult, closes |-> closeCalls,
        dbUp |-> dbReachable, pool |-> pool.state]

Stmt == IF genPc \in DOMAIN lifespan THEN lifespan[genPc] ELSE "return"

\* main.py is imported: it imports shared.db.connect, which imports
\* shared.config, whose last line constructs the settings.
LoadSettings ==
    /\ pc = "boot"
    /\ settings' = Settings
    /\ pc' = IF Settings = {} THEN "import_failed" ELSE "ready"
    /\ UNCHANGED <<env, envFile, genState, genPc, initCalls, closeCalls, initResult,
                   pool, dbReachable, accepting, nextReq, inflight, healthLog, gqlLog>>
    /\ UNCHANGED dbVars

\* The ASGI server enters the lifespan context of the application.
LifespanEnter ==
    /\ pc = "ready"
    /\ genState = "idle"
    /\ genState' = "running"
    /\ UNCHANGED <<env, envFile, pc, settings, genPc, initCalls, closeCalls, initResult,
                   pool, dbReachable, accepting, nextReq, inflight, healthLog, gqlLog>>
    /\ UNCHANGED dbVars

\* await init_db(): the call
CallInitDb ==
    /\ genState = "running"
    /\ Stmt = "init_db"
    /\ initCalls' = initCalls + 1
    /\ genState' = "awaiting"
    /\ UNCHANGED <<env, envFile, pc, settings, genPc, closeCalls, initResult,
                   pool, dbReachable, accepting, nextReq, inflight, healthLog, gqlLog>>
    /\ UNCHANGED dbVars

\* await init_db(): it returns.  Tortoise may connect at once or at the first
\* query, so init_db can succeed while the database is unreachable.
InitDbReturn ==
    /\ genState = "awaiting"
    /\ Stmt = "init_db"
    /\ pool' = init_db(CHOOSE s \in settings : TRUE)
    /\ initResult' = "ok"
    /\ genState' = "running"
    /\ genPc' = genPc + 1
    /\ UNCHANGED <<env, envFile, pc, settings, initCalls, closeCalls,
                   dbReachable, accepting, nextReq, inflight, healthLog, gqlLog>>
    /\ UNCHANGED dbVars

InitDbRaise_Swallowed ==
    /\ genState = "awaiting"
    /\ Stmt = "init_db"
    /\ ~dbReachable
    /\ initResult' = "error"
    /\ genState' = "running"
    /\ genPc' = genPc + 1
    /\ UNCHANGED <<env, envFile, pc, settings, initCalls, closeCalls, pool,
                   dbReachable, accepting, nextReq, inflight, healthLog, gqlLog>>
    /\ UNCHANGED dbVars

\* await init_db(): it raises a connection error, which nothing in lifespan
\* catches: the generator ends with the exception.
InitDbRaise ==
    /\ genState = "awaiting"
    /\ Stmt = "init_db"
    /\ ~dbReachable
    /\ initResult' = "error"
    /\ genState' = "raised"
    /\ UNCHANGED <<env, envFile, pc, settings, genPc, initCalls, closeCalls, pool,
                   dbReachable, accepting, nextReq, inflight, healthLog, gqlLog>>
    /\ UNCHANGED dbVars

\* yield: the generator is suspended, startup is complete and the server
\* starts dispatching requests.
Yield ==
    /\ genState = "running"
    /\ Stmt = "yield"
    /\ genState' = "suspended"
    /\ accepting' = TRUE
    /\ UNCHANGED <<env, envFile, pc, settings, genPc, initCalls, closeCalls, initResult,
                   pool, dbReachable, nextReq, inflight, healthLog, gqlLog>>
    /\ UNCHANGED dbVars

\* The server is told to stop: it dispatches no new request.
ShutdownSignal ==
    /\ genState = "suspended"
    /\ accepting
    /\ accepting' = FALSE
    /\ UNCHANGED <<env, envFile, pc, settings, genState, genPc, initCalls, closeCalls,
                   initResult, pool, dbReachable, nextReq, inflight, healthLog, gqlLog>>
    /\ UNCHANGED dbVars

\* The server, with no request left in flight, leaves the lifespan context:
\* the generator resumes after its yield.
LifespanResume ==
    /\ genState = "suspended"
    /\ ~accepting
    /\ inflight = {}
    /\ genState' = "running"
    /\ genPc' = genPc + 1
    /\ UNCHANGED <<env, envFile, pc, settings, initCalls, closeCalls, initResult,
                   pool, dbReachable, accepting, nextReq, inflight, healthLog, gqlLog>>
    /\ UNCHANGED dbVars

\* An exception (a cancellation, an error of the server) is delivered to the
\* lifespan context while it is suspended: it is raised at the yield, which
\* no try statement encloses, so the generator ends with it.
LifespanThrow ==
    /\ genState = "suspended"
    /\ genState' = "raised"
    /\ accepting' = FALSE
    /\ inflight' = {}
    /\ UNCHANGED <<env, envFile, pc, settings, genPc, initCalls, closeCalls, initResult,
                   pool, dbReachable, nextReq, healthLog, gqlLog>>
    /\ UNCHANGED dbVars

\* await close_db(): the call
CallCloseDb ==
    /\ genState = "running"
    /\ Stmt = "close_db"
    /\ closeCalls' = closeCalls + 1
    /\ genState' = "awaiting"
    /\ UNCHANGED <<env, envFile, pc, settings, genPc, initCalls, initResult,
                   pool, dbReachable, accepting, nextReq, inflight, healthLog, gqlLog>>
    /\ UNCHANGED dbVars

\* await close_db(): it returns
CloseDbReturn ==
    /\ genState = "awaiting"
    /\ Stmt = "close_db"
    /\ pool' = close_db(pool)
    /\ genState' = "running"
    /\ genPc' = genPc + 1
    /\ UNCHANGED <<env, envFile, pc, settings, initCalls, closeCalls, initResult,
                   dbReachable, accepting, nextReq, inflight, healthLog, gqlLog>>
    /\ UNCHANGED dbVars

\* The end of the body of lifespan
LifespanReturn ==
    /\ genState = "running"
    /\ Stmt = "return"
    /\ genState' = "returned"
    /\ UNCHANGED <<env, envFile, pc, settings, genPc, initCalls, closeCalls, initResult,
                   pool, dbReachable, accepting, nextReq, inflight, healthLog, gqlLog>>
    /\ UNCHANGED dbVars

\* The process ends: the import failed, or the lifespan is over.
ProcessExit ==
    /\ \/ pc = "import_failed"
       \/ pc = "ready" /\ genState \in { "returned", "raised" }
    /\ pc' = "exited"
    /\ UNCHANGED <<env, envFile, settings, genState, genPc, initCalls, closeCalls,
                   initResult, pool, dbReachable, accepting, nextReq, inflight,
                   healthLog, gqlLog>>
    /\ UNCHANGED dbVars

\* The server dispatches a request to the application.
Accept(path, field) ==
    /\ accepting
    /\ nextReq <= MaxRequests
    /\ inflight' = inflight \cup { [id |-> nextReq, path |-> path, field |-> field] }
    /\ nextReq' = nextReq + 1
    /\ UNCHANGED <<env, envFile, pc, settings, genState, genPc, initCalls, closeCalls,
                   initResult, pool, dbReachable, accepting, healthLog, gqlLog>>
    /\ UNCHANGED dbVars

\* @app.get("/health")
HandleHealth(r) ==
    /\ r \in inflight
    /\ r.path = "/health"
    /\ healthLog' = healthLog \cup { [id |-> r.id, code |-> 200, body |-> health, at |-> Now] }
    /\ inflight' = inflight \ {r}
    /\ UNCHANGED <<env, envFile, pc, settings, genState, genPc, initCalls, closeCalls,
                   initResult, pool, dbReachable, accepting, nextReq, gqlLog>>
    /\ UNCHANGED dbVars

\* app.include_router(GraphQLRouter(schema), prefix="/graphql")
HandleGraphql(r) ==
    /\ r \in inflight
    /\ r.path = "/graphql"
    /\ gqlLog' = gqlLog \cup { [id |-> r.id, field |-> r.field, code |-> 200,
                                body |-> schema_execute(r.field), at |-> Now] }
    /\ inflight' = inflight \ {r}
    /\ UNCHANGED <<env, envFile, pc, settings, genState, genPc, initCalls, closeCalls,
                   initResult, pool, dbReachable, accepting, nextReq, healthLog>>
    /\ UNCHANGED dbVars

\* The stopping server gives up on a request in flight.
CancelRequest(r) ==
    /\ r \in inflight
    /\ ~accepting
    /\ inflight' = inflight \ {r}
    /\ UNCHANGED <<env, envFile, pc, settings, genState, genPc, initCalls, closeCalls,
                   initResult, pool, dbReachable, accepting, nextReq, healthLog, gqlLog>>
    /\ UNCHANGED dbVars

\* The database server goes down or comes back.
DbFlip ==
    /\ pc # "exited"
    /\ dbReachable' = ~dbReachable
    /\ UNCHANGED <<env, envFile, pc, settings, genState, genPc, initCalls, closeCalls,
                   initResult, pool, accepting, nextReq, inflight, healthLog, gqlLog>>
    /\ UNCHANGED dbVars

(***************************************************************************)
(* The specifications.                                                     *)
(***************************************************************************)
EnvValues == { {}, { "postgres://env/app" } }
EnvFileValues == { {}, { "postgres://file/app" } }

SeedRow == User_new(Kw({1}, {}, {}, {}, {}), 1, 0)

ProcessInit ==
    /\ pc = "boot"
    /\ settings = {}
    /\ genState = "idle"
    /\ genPc = 1
    /\ initCalls = 0
    /\ closeCalls = 0
    /\ initResult = "none"
    /\ pool = NoPool
    /\ accepting = FALSE
    /\ nextReq = 1
    /\ inflight = {}
    /\ healthLog = {}
    /\ gqlLog = {}

\* The API process starts against a migrated database.
Init ==
    /\ env \in EnvValues
    /\ envFile \in EnvFileValues
    /\ dbReachable \in BOOLEAN
    /\ ProcessInit
    /\ schema = MigratedCatalog
    /\ rows \in { << >>, << SeedRow >> }
    /\ clock = 0
    /\ applied = "once"
    /\ lastError = "none"

Next ==
    \/ LoadSettings
    \/ LifespanEnter
    \/ CallInitDb
    \/ InitDbReturn
    \/ InitDbRaise
    \/ Yield
    \/ ShutdownSignal
    \/ LifespanResume
    \/ LifespanThrow
    \/ CallCloseDb
    \/ CloseDbReturn
    \/ LifespanReturn
    \/ ProcessExit
    \/ \E p \in Paths, f \in AskedFields : Accept(p, f)
    \/ \E r \in inflight : HandleHealth(r)
    \/ \E r \in inflight : HandleGraphql(r)
    \/ \E r \in inflight : CancelRequest(r)
    \/ DbFlip

Spec == Init /\ [][Next]_vars

\* The database starts empty, with no API process.
DbInit ==
    /\ env = {}
    /\ envFile = {}
    /\ dbReachable = TRUE
    /\ ProcessInit
    /\ schema = EmptyCatalog
    /\ rows = << >>
    /\ clock = 0
    /\ applied = "never"
    /\ lastError = "none"

DbNext ==
    \/ RunUpgrade
    \/ RunDowngrade
    \/ \E kw \in CreateArgs : CreateUser(kw)
    \/ \E i \in DOMAIN rows, e \in Emails : UpdateEmail(i, {e})
    \/ \E i \in DOMAIN rows : UpdateEmail(i, {})
    \/ Tick

DbSpec == DbInit /\ [][DbNext]_vars


(***************************************************************************)
(* Properties of the API process (specification Spec).                     *)
(***************************************************************************)
Started == initResult = "ok"
InWindow == initResult = "ok" /\ closeCalls = 0

\* C1: once init_db() has completed inside lifespan, close_db() is called
\* exactly once before the process exits, on every exit path, also when an
\* exception is delivered at the yield; and close_db() is never called
\* before init_db() has completed.
C1_CloseExactlyOnce ==
    /\ closeCalls > 0 => Started
    /\ closeCalls <= 1
    /\ (pc = "exited" /\ Started) => closeCalls = 1

HealthFrame ==
    UNCHANGED <<env, envFile, pc, settings, genState, genPc, initCalls, closeCalls,
                initResult, pool, dbReachable, accepting, nextReq, gqlLog,
                schema, rows, clock, applied, lastError>>

\* C2: every GET /health is answered 200 {"status": "ok"}, whatever the state
\* of the database and of the connection pool, and answering it changes
\* neither.
C2_HealthAlwaysOk ==
    [][healthLog' # healthLog =>
         /\ \E r \in inflight :
               /\ r.path = "/health"
               /\ healthLog' = healthLog \cup
                     { [id |-> r.id, code |-> 200, body |-> [status |-> "ok"], at |-> Now] }
               /\ inflight' = inflight \ {r}
         /\ HealthFrame]_vars

\* C2 witness: /health was answered while the database was unreachable.
C2_Witness == \E e \in healthLog : ~e.at.dbUp /\ e.body.status = "ok"

DatabaseUrlUnset == env = {} /\ envFile = {}

\* C3: with DATABASE_URL unset in the environment and in the env file, the
\* construction of the settings fails when the module is loaded: init_db()
\* is never reached and no request is ever dispatched or answered.
C3_UnsetUrlFailsAtLoad ==
    DatabaseUrlUnset =>
        /\ pc \in { "boot", "import_failed", "exited" }
        /\ settings = {}
        /\ genState = "idle"
        /\ initCalls = 0
        /\ ~accepting
        /\ nextReq = 1
        /\ inflight = {}
        /\ healthLog = {}
        /\ gqlLog = {}

\* C3 witness: the import failed for an unset DATABASE_URL and the process
\* ended.
C3_Witness == DatabaseUrlUnset /\ pc = "exited"

\* C4: when init_db() fails, the failure ends the lifespan: init_db() was
\* called once and is not called again, no request is ever dispatched, and
\* close_db() is not called.
C4_InitFailureIsFatal ==
    /\ initCalls <= 1
    /\ initResult = "error" =>
          /\ initCalls = 1
          /\ closeCalls = 0
          /\ genState = "raised"
          /\ pool = NoPool
          /\ ~accepting
          /\ nextReq = 1
          /\ inflight = {}
          /\ healthLog = {}
          /\ gqlLog = {}

\* C4 witness: init_db() failed and the process ended.
C4_Witness == initResult = "error" /\ pc = "exited"

GraphqlFrame ==
    UNCHANGED <<env, envFile, pc, settings, genState, genPc, initCalls, closeCalls,
                initResult, pool, dbReachable, accepting, nextReq, healthLog,
                schema, rows, clock, applied, lastError>>

\* The response envelope the specification gives for the query { field }.
PingEnvelope(field) ==
    IF field = "ping"
    THEN [data |-> { <<"ping", "pong">> }, errors |-> {}]
    ELSE [data |-> {}, errors |-> { "Cannot query field" }]

\* C8: the schema has the one query field ping, without arguments; every
\* query { ping } is answered {"data": {"ping": "pong"}}, and answering it
\* changes neither the connection state, nor the settings, nor a stored row.
C8_PingReturnsPong ==
    [][/\ { f.name : f \in QueryFields } = { "ping" }
       /\ \A f \in QueryFields : f.args = << >>
       /\ gqlLog' # gqlLog =>
            /\ \E r \in inflight :
                  /\ r.path = "/graphql"
                  /\ gqlLog' = gqlLog \cup
                        { [id |-> r.id, field |-> r.field, code |-> 200,
                           body |-> PingEnvelope(r.field), at |-> Now] }
                  /\ inflight' = inflight \ {r}
            /\ GraphqlFrame]_vars

\* C8 witness: { ping } was answered "pong" beside a stored user row.
C8_Witness ==
    /\ rows # << >>
    /\ \E e \in gqlLog : e.field = "ping" /\ e.body.data = { <<"ping", "pong">> }

\* C10: a request is in flight, and a response is made, only after init_db()
\* has completed and before close_db() is called.
C10_ServedInsideWindow ==
    /\ inflight # {} => InWindow
    /\ \A e \in healthLog : e.at.init = "ok" /\ e.at.closes = 0
    /\ \A e \in gqlLog : e.at.init = "ok" /\ e.at.closes = 0
    /\ ~Started => nextReq = 1
    /\ closeCalls > 0 => ~accepting

\* C10 witness: two requests are in flight at once when the server is told to
\* stop.
C10_Witness == Cardinality(inflight) >= 2 /\ ~accepting /\ genState = "suspended"

(***************************************************************************)
(* Properties of the database (specification DbSpec).                      *)
(***************************************************************************)
ColumnNames(cat) == [t \in DOMAIN cat |-> { c.name : c \in cat[t] }]

\* The tables and columns of sections 3 and 6 of the specification.
RecordColumns == { "id", "created_at", "updated_at", "is_deleted" }
SpecTables ==
    [t \in { "basemodel", "users", "aerich" } |->
        IF t = "basemodel" THEN RecordColumns
        ELSE IF t = "users"
        THEN RecordColumns \cup { "email", "phone", "password_hash", "is_active", "is_verified" }
        ELSE { "id", "version", "app", "content" }]

\* C5: the forward migration on an empty database creates the tables
\* basemodel, users and aerich with the specified columns; applied again it
\* raises no error and leaves the schema and the rows as they are; the
\* backward migration is empty and changes nothing.
C5_MigrationIdempotent ==
    [][/\ RunUpgrade =>
            /\ lastError' = "none"
            /\ ColumnNames(schema') = SpecTables
            /\ rows' = rows
            /\ schema # EmptyCatalog => schema' = schema
       /\ RunDowngrade =>
            /\ downgrade = << >>
            /\ lastError' = "none"
            /\ schema' = schema
            /\ rows' = rows]_vars

\* C5 witness: the migration was applied a second time, to a database that
\* holds a row.
C5_Witness ==
    /\ applied = "again"
    /\ lastError = "none"
    /\ ColumnNames(schema) = SpecTables
    /\ rows # << >>

EmailStored(e) == \E i \in DOMAIN rows : rows[i].email = e

UniqueEmails == \A i, j \in DOMAIN rows : i # j => rows[i].email # rows[j].email

\* C6: no two rows of users have the same email; an insertion with the email
\* of a stored row fails with a uniqueness violation and leaves the rows as
\* they are.
C6_EmailUnique ==
    [][/\ UniqueEmails'
       /\ \A kw \in CreateArgs :
             (CreateUser(kw) /\ EmailStored(kw.email)) =>
                 rows' = rows /\ lastError' = "unique_violation"]_vars

\* C6 witness: with one row stored, an insertion was refused for its email.
C6_Witness == Len(rows) = 1 /\ lastError = "unique_violation"

NonNull(r) == r.id # {} /\ r.created_at # {} /\ r.updated_at # {} /\ r.email # {}

\* C7: a created row has id, created_at, updated_at (and email) set, and
\* is_active = true, is_verified = false when the creation did not give them.
C7_CreatedRowDefaults ==
    [][/\ \A i \in DOMAIN rows' : NonNull(rows'[i])
       /\ \A kw \in CreateArgs :
             (CreateUser(kw) /\ Len(rows') = Len(rows) + 1) =>
                 LET r == rows'[Len(rows')]
                 IN  /\ NonNull(r)
                     /\ kw.is_active = {} => r.is_active = {TRUE}
                     /\ kw.is_verified = {} => r.is_verified = {FALSE}]_vars

\* C7 witness: a row created from an email alone is stored.
C7_Witness ==
    \E i \in DOMAIN rows :
        /\ rows[i].is_active = {TRUE}
        /\ rows[i].is_verified = {FALSE}
        /\ rows[i].phone = {}
        /\ rows[i].password_hash = {}

Val(s) == CHOOSE x \in s : TRUE

\* C9: over every mutation a stored row keeps its id and its created_at, and
\* its updated_at does not decrease.
C9_RecordTimestamps ==
    [][\A i \in DOMAIN rows :
          /\ i \in DOMAIN rows'
          /\ rows'[i].id = rows[i].id
          /\ rows'[i].created_at = rows[i].created_at
          /\ Val(rows'[i].updated_at) >= Val(rows[i].updated_at)]_vars

\* C9 witness: a row was saved after the time of its creation.
C9_Witness ==
    \E i \in DOMAIN rows : Val(rows[i].updated_at) > Val(rows[i].created_at)

=============================================================================
